---- MODULE Spec2Model ----
(***************************************************************************)
(* A model of hwndloop (src/src/lib.rs): an event loop backed by a Win32   *)
(* message-only window and a dedicated handler thread.  Producer threads   *)
(* hold a HwndLoop handle and call send_command, flush and terminate, or   *)
(* post raw window messages to the HWND; the handler thread retrieves the  *)
(* window's messages in posting order and runs the callbacks.              *)
(***************************************************************************)
EXTENDS Naturals, Sequences, FiniteSets

(* ------------------------------ bounds --------------------------------- *)
\* Total number of operations the producer threads start, all together.
MaxOps == 4

\* The threads that share the handle.
Producers == {"p1", "p2"}
Worker == "worker"

(* ------------------------ names from the source ------------------------ *)
WM_HWNDLOOP_INIT    == "WM_HWNDLOOP_INIT"
WM_HWNDLOOP_COMMAND == "WM_HWNDLOOP_COMMAND"
WM_HWNDLOOP_FLUSH   == "WM_HWNDLOOP_FLUSH"
WM_USER             == "WM_USER"
WM_CREATE           == "WM_CREATE"
WM_DESTROY          == "WM_DESTROY"

Terminate == <<"Terminate">>
UserCommand(cmd) == <<"UserCommand", cmd>>

NULL == "null"
Free == "free"
Poisoned == "poisoned"
NoMsg == <<"none", 0>>

VARIABLES
  cpc,             \* position of the thread inside HwndLoop::new
  wpc,             \* position of the handler thread
  pc,              \* position of each producer thread
  window,          \* "none" | "alive" | "destroyed": the HWND
  wnd_extra,       \* the window's extra pointer: NULL or "callbacks"
  raw_cb,          \* "none" | "boxed" | "freed": the boxed callbacks object
  posted,          \* the window's posted-message queue, oldest first
  msg,             \* the MSG the handler thread retrieved last
  command_queue,   \* VecDeque<HwndLoopCommand>, front first
  queue_lock,      \* Mutex of command_queue: Free, Poisoned or its holder
  flush_requests,  \* Vec<Sender<()>>: the flush() call (its thread) of each
  flush_lock,      \* Mutex of flush_requests
  handshake,       \* number of values sent on new()'s channel, not received
  signalled,       \* the flush() calls whose Sender has sent ()
  terminated,      \* AtomicBool
  join_handle,     \* "None" | "Some": Option<JoinHandle>
  running,         \* callbacks executing now: <<thread, callback>>
  issued,          \* per producer: the commands and raw messages it issued
  observed,        \* the commands and messages the callbacks were invoked on
  done,            \* the items whose callback has returned
  opsLeft,         \* operations the producers may still start
  cmd,             \* the command the handler thread popped last
  ret,             \* per producer: what held when its last call returned
  hist             \* counters and flags recording what has happened

vars == <<cpc, wpc, pc, window, wnd_extra, raw_cb, posted, msg, command_queue,
          queue_lock, flush_requests, flush_lock, handshake, signalled,
          terminated, join_handle, running, issued, observed, done, opsLeft,
          cmd, ret, hist>>

NoRet == [op |-> "none", won |-> FALSE, worker |-> "none", undone |-> {},
          flushers |-> {}]

Init ==
  /\ cpc = "spawn"
  /\ wpc = "unspawned"
  /\ pc = [p \in Producers |-> "idle"]
  /\ window = "none"
  /\ wnd_extra = NULL
  /\ raw_cb = "none"
  /\ posted = <<>>
  /\ msg = NoMsg
  /\ command_queue = <<>>
  /\ queue_lock = Free
  /\ flush_requests = <<>>
  /\ flush_lock = Free
  /\ handshake = 0
  /\ signalled = {}
  /\ terminated = FALSE
  /\ join_handle = "None"
  /\ running = {}
  /\ issued = [p \in Producers |-> <<>>]
  /\ observed = <<>>
  /\ done = {}
  /\ opsLeft = MaxOps
  /\ cmd = Terminate
  /\ ret = [p \in Producers |-> NoRet]
  /\ hist = [set_up |-> 0, tear_down_started |-> 0, tear_down |-> 0,
             handshakes |-> 0, terminates |-> 0, joins |-> 0,
             flushers |-> {}, pushed |-> <<>>, cwakes |-> 0, noops |-> 0]

(* ------------------------------ helpers -------------------------------- *)
\* PostMessageW appends to the window's posted-message queue; it fails (returns
\* FALSE) when the HWND is not a window.
PostMessageW(q, m) == Append(q, m)
PostSucceeds == window = "alive"

\* (variant: VecDeque::pop_back in place of pop_front)
pop_back(q) == <<q[Len(q)], SubSeq(q, 1, Len(q) - 1)>>

\* (variant: VecDeque::front, which leaves the element in the queue)
front_only(q) == <<Head(q), q>>

\* VecDeque::pop_front of a non-empty queue: <<the element, what is left>>.
pop_front(q) == <<Head(q), Tail(q)>>

\* (variant: Vec::remove(0) in place of pop)
remove_first(v) == <<v[1], Tail(v)>>

\* Vec::pop of a non-empty vector: <<the last element, what is left>>.
pop(v) == <<v[Len(v)], SubSeq(v, 1, Len(v) - 1)>>

\* wnd_proc: without the extra pointer the message goes to DefWindowProcA,
\* with it to the callbacks' handle_message.
wnd_proc(extra) == IF extra = NULL THEN "DefWindowProcA" ELSE "handle_message"

\* Where the handler thread continues when the window procedure returns.
AfterWndProc(m) ==
  CASE m[1] = WM_CREATE -> "post_init"
    [] m[1] = WM_DESTROY -> "unregister_class"
    [] OTHER -> "get_message"

\* The window procedure is entered on the handler thread with message m.
EnterWndProc(m) ==
  IF wnd_proc(wnd_extra) = "handle_message"
  THEN /\ wpc' = "handle_message"
       /\ running' = running \cup {<<Worker, "handle_message">>}
       /\ observed' = Append(observed, m[2])
  ELSE /\ wpc' = AfterWndProc(m)
       /\ UNCHANGED <<running, observed>>

producerVars == <<pc, issued, opsLeft, ret>>
queueVars == <<command_queue, queue_lock, cmd>>
flushVars == <<flush_requests, flush_lock, signalled>>
handleVars == <<terminated, join_handle>>

(* ------------------------- HwndLoop::new, caller ----------------------- *)
\* std::thread::spawn: the handler thread starts.
Spawn ==
  /\ cpc = "spawn"
  /\ cpc' = "recv"
  /\ wpc' = "register_class"
  /\ UNCHANGED <<window, wnd_extra, raw_cb, posted, msg, handshake, running,
                 observed, done, hist, producerVars, queueVars, flushVars,
                 handleVars>>

\* rx.recv().unwrap(), then the HwndLoop is built and returned.
Recv ==
  /\ cpc = "recv"
  /\ handshake > 0
  /\ handshake' = handshake - 1
  /\ terminated' = FALSE
  /\ join_handle' = "Some"
  /\ cpc' = "done"
  /\ UNCHANGED <<wpc, window, wnd_extra, raw_cb, posted, msg, running,
                 observed, done, hist, producerVars, queueVars, flushVars>>

(* --------------------------- handler thread ---------------------------- *)
workerFrame == <<cpc, handshake, producerVars, queueVars, flushVars,
                 handleVars>>

RegisterClass ==
  /\ wpc = "register_class"
  /\ wpc' = "create_window"
  /\ UNCHANGED <<window, wnd_extra, raw_cb, posted, msg, running, observed,
                 done, hist, workerFrame>>

\* CreateWindowExW calls the window procedure while it creates the window.
CreateWindow ==
  /\ wpc = "create_window"
  /\ window' = "alive"
  /\ msg' = <<WM_CREATE, <<"msg", Worker, 0>>>>
  /\ EnterWndProc(msg')
  /\ UNCHANGED <<wnd_extra, raw_cb, posted, done, hist, workerFrame>>

\* (variant: the handshake is sent as soon as the init message is posted)
PostInitAndSend ==
  /\ wpc = "post_init"
  /\ posted' = PostMessageW(posted, <<WM_HWNDLOOP_INIT, 0>>)
  /\ handshake' = handshake + 1
  /\ hist' = [hist EXCEPT !.handshakes = @ + 1]
  /\ wpc' = "set_up"
  /\ UNCHANGED <<window, wnd_extra, raw_cb, msg, running, observed, done,
                 cpc, producerVars, queueVars, flushVars, handleVars>>

\* PostMessageW(hwnd, WM_HWNDLOOP_INIT)
PostInit ==
  /\ wpc = "post_init"
  /\ posted' = PostMessageW(posted, <<WM_HWNDLOOP_INIT, 0>>)
  /\ wpc' = "set_up"
  /\ UNCHANGED <<window, wnd_extra, raw_cb, msg, running, observed, done,
                 hist, workerFrame>>

SetUpCall ==
  /\ wpc = "set_up"
  /\ running' = running \cup {<<Worker, "set_up">>}
  /\ wpc' = "in_set_up"
  /\ UNCHANGED <<window, wnd_extra, raw_cb, posted, msg, observed, done,
                 hist, workerFrame>>

SetUpReturn ==
  /\ wpc = "in_set_up"
  /\ running' = running \ {<<Worker, "set_up">>}
  /\ hist' = [hist EXCEPT !.set_up = @ + 1]
  /\ wpc' = "install"
  /\ UNCHANGED <<window, wnd_extra, raw_cb, posted, msg, observed, done,
                 workerFrame>>

\* Box::into_raw of the callbacks, SetWindowLongPtrA(hwnd, 0, wnd_extra).
InstallCallbacks ==
  /\ wpc = "install"
  /\ raw_cb' = "boxed"
  /\ wnd_extra' = "callbacks"
  /\ wpc' = "get_message"
  /\ UNCHANGED <<window, posted, msg, running, observed, done, hist,
                 workerFrame>>

\* (variant: the loop also looks at the command queue whenever it is about to
\* wait, and handles a queued command without waiting for its wake)
GetMessageOrPoll ==
  /\ wpc = "get_message"
  /\ IF command_queue # <<>> /\ queue_lock = Free
     THEN /\ msg' = <<WM_HWNDLOOP_COMMAND, 0>>
          /\ UNCHANGED posted
     ELSE /\ posted # <<>>
          /\ msg' = Head(posted)
          /\ posted' = Tail(posted)
  /\ wpc' = "dispatch"
  /\ UNCHANGED <<window, wnd_extra, raw_cb, running, observed, done, hist,
                 workerFrame>>

\* GetMessageW blocks until a message is posted and takes the oldest.
GetMessage ==
  /\ wpc = "get_message"
  /\ posted # <<>>
  /\ msg' = Head(posted)
  /\ posted' = Tail(posted)
  /\ wpc' = "dispatch"
  /\ UNCHANGED <<window, wnd_extra, raw_cb, running, observed, done, hist,
                 workerFrame>>

\* msg.message == WM_HWNDLOOP_INIT: tx.send(...)
InitBranch ==
  /\ wpc = "dispatch"
  /\ msg[1] = WM_HWNDLOOP_INIT
  /\ handshake' = handshake + 1
  /\ hist' = [hist EXCEPT !.handshakes = @ + 1]
  /\ wpc' = "get_message"
  /\ UNCHANGED <<cpc, window, wnd_extra, raw_cb, posted, msg, running,
                 observed, done, producerVars, queueVars, flushVars,
                 handleVars>>

\* (variant: pop_front().unwrap() without the is_empty test)
CommandBranchUnchecked ==
  /\ wpc = "dispatch"
  /\ msg[1] = WM_HWNDLOOP_COMMAND
  /\ queue_lock \in {Free, Poisoned}
  /\ IF queue_lock = Poisoned \/ command_queue = <<>>
     THEN /\ wpc' = "panicked"
          /\ UNCHANGED <<command_queue, queue_lock, cmd, running, observed,
                         hist>>
     ELSE /\ cmd' = Head(command_queue)
          /\ command_queue' = Tail(command_queue)
          /\ hist' = [hist EXCEPT !.cwakes = @ + 1]
          /\ IF cmd' = Terminate
             THEN /\ wpc' = "tear_down"
                  /\ UNCHANGED <<queue_lock, running, observed>>
             ELSE /\ queue_lock' = Worker
                  /\ running' = running \cup {<<Worker, "handle_command">>}
                  /\ observed' = Append(observed, cmd'[2])
                  /\ wpc' = "handle_command"
  /\ UNCHANGED <<cpc, window, wnd_extra, raw_cb, posted, msg, handshake, done,
                 producerVars, flushVars, handleVars>>

\* msg.message == WM_HWNDLOOP_COMMAND: lock the queue, pop one command.  The
\* guard `queue` lives to the end of the block, so it is held while
\* handle_command runs.
CommandBranch ==
  /\ wpc = "dispatch"
  /\ msg[1] = WM_HWNDLOOP_COMMAND
  /\ queue_lock \in {Free, Poisoned}
  /\ IF queue_lock = Poisoned
     THEN /\ wpc' = "panicked"
          /\ UNCHANGED <<command_queue, queue_lock, cmd, running, observed,
                         hist>>
     ELSE IF command_queue = <<>>
     THEN /\ wpc' = "get_message"
          /\ hist' = [hist EXCEPT !.noops = @ + 1]
          /\ UNCHANGED <<command_queue, queue_lock, cmd, running, observed>>
     ELSE /\ cmd' = pop_front(command_queue)[1]
          /\ command_queue' = pop_front(command_queue)[2]
          /\ hist' = [hist EXCEPT !.cwakes = @ + 1]
          /\ IF cmd' = Terminate
             THEN /\ wpc' = "tear_down"
                  /\ UNCHANGED <<queue_lock, running, observed>>
             ELSE /\ queue_lock' = Worker
                  /\ running' = running \cup {<<Worker, "handle_command">>}
                  /\ observed' = Append(observed, cmd'[2])
                  /\ wpc' = "handle_command"
  /\ UNCHANGED <<cpc, window, wnd_extra, raw_cb, posted, msg, handshake, done,
                 producerVars, flushVars, handleVars>>

\* (variant: the loop is left after any command, not only after Terminate)
HandleCommandReturnBreak ==
  /\ wpc = "handle_command"
  /\ running' = running \ {<<Worker, "handle_command">>}
  /\ done' = done \cup {cmd[2]}
  /\ queue_lock' = Free
  /\ wpc' = "tear_down"
  /\ UNCHANGED <<cpc, window, wnd_extra, raw_cb, posted, msg, handshake,
                 observed, hist, producerVars, command_queue, cmd, flushVars,
                 handleVars>>

\* handle_command returns; the block ends and the queue guard is dropped.
HandleCommandReturn ==
  /\ wpc = "handle_command"
  /\ running' = running \ {<<Worker, "handle_command">>}
  /\ done' = done \cup {cmd[2]}
  /\ queue_lock' = Free
  /\ wpc' = "get_message"
  /\ UNCHANGED <<cpc, window, wnd_extra, raw_cb, posted, msg, handshake,
                 observed, hist, producerVars, command_queue, cmd, flushVars,
                 handleVars>>

\* msg.message == WM_HWNDLOOP_FLUSH: reqs.pop().unwrap().send(())
FlushBranch ==
  /\ wpc = "dispatch"
  /\ msg[1] = WM_HWNDLOOP_FLUSH
  /\ flush_lock \in {Free, Poisoned}
  /\ IF flush_lock = Poisoned \/ flush_requests = <<>>
     THEN /\ wpc' = "panicked"
          /\ UNCHANGED <<flush_requests, signalled>>
     ELSE /\ signalled' = signalled \cup {pop(flush_requests)[1]}
          /\ flush_requests' = pop(flush_requests)[2]
          /\ wpc' = "get_message"
  /\ UNCHANGED <<cpc, window, wnd_extra, raw_cb, posted, msg, handshake,
                 running, observed, done, hist, producerVars, queueVars,
                 flush_lock, handleVars>>

\* Any other message: DispatchMessageW calls the window procedure.
OtherBranch ==
  /\ wpc = "dispatch"
  /\ msg[1] \notin {WM_HWNDLOOP_INIT, WM_HWNDLOOP_COMMAND, WM_HWNDLOOP_FLUSH}
  /\ EnterWndProc(msg)
  /\ UNCHANGED <<window, wnd_extra, raw_cb, posted, msg, done, hist,
                 workerFrame>>

HandleMessageReturn ==
  /\ wpc = "handle_message"
  /\ running' = running \ {<<Worker, "handle_message">>}
  /\ done' = done \cup {msg[2]}
  /\ wpc' = AfterWndProc(msg)
  /\ UNCHANGED <<window, wnd_extra, raw_cb, posted, msg, observed, hist,
                 workerFrame>>

\* (variant: the window is destroyed before tear_down is called)
TearDownCallOnDestroyedWindow ==
  /\ wpc = "tear_down"
  /\ window' = "destroyed"
  /\ posted' = <<>>
  /\ running' = running \cup {<<Worker, "tear_down">>}
  /\ hist' = [hist EXCEPT !.tear_down_started = @ + 1]
  /\ wpc' = "in_tear_down"
  /\ UNCHANGED <<wnd_extra, raw_cb, msg, observed, done, workerFrame>>

TearDownCall ==
  /\ wpc = "tear_down"
  /\ running' = running \cup {<<Worker, "tear_down">>}
  /\ hist' = [hist EXCEPT !.tear_down_started = @ + 1]
  /\ wpc' = "in_tear_down"
  /\ UNCHANGED <<window, wnd_extra, raw_cb, posted, msg, observed, done,
                 workerFrame>>

TearDownReturn ==
  /\ wpc = "in_tear_down"
  /\ running' = running \ {<<Worker, "tear_down">>}
  /\ hist' = [hist EXCEPT !.tear_down = @ + 1]
  /\ wpc' = "detach"
  /\ UNCHANGED <<window, wnd_extra, raw_cb, posted, msg, observed, done,
                 workerFrame>>

\* (variant: the extra pointer is left in the window)
DetachNothing ==
  /\ wpc = "detach"
  /\ wpc' = "destroy_callbacks"
  /\ UNCHANGED <<window, wnd_extra, raw_cb, posted, msg, running, observed,
                 done, hist, workerFrame>>

\* SetWindowLongPtrA(hwnd, 0, 0)
DetachCallbacks ==
  /\ wpc = "detach"
  /\ wnd_extra' = NULL
  /\ wpc' = "destroy_callbacks"
  /\ UNCHANGED <<window, raw_cb, posted, msg, running, observed, done, hist,
                 workerFrame>>

\* Box::from_raw(raw_cb), dropped at once.
DestroyCallbacks ==
  /\ wpc = "destroy_callbacks"
  /\ raw_cb' = "freed"
  /\ wpc' = "destroy_window"
  /\ UNCHANGED <<window, wnd_extra, posted, msg, running, observed, done,
                 hist, workerFrame>>

\* DestroyWindow calls the window procedure with WM_DESTROY; the messages
\* still posted are discarded with the window.
DestroyWindow ==
  /\ wpc = "destroy_window"
  /\ window' = "destroyed"
  /\ posted' = <<>>
  /\ msg' = <<WM_DESTROY, <<"msg", Worker, 1>>>>
  /\ EnterWndProc(msg')
  /\ UNCHANGED <<wnd_extra, raw_cb, done, hist, workerFrame>>

\* UnregisterClassW; the closure returns and the thread ends.
UnregisterClass ==
  /\ wpc = "unregister_class"
  /\ wpc' = "exited"
  /\ UNCHANGED <<window, wnd_extra, raw_cb, posted, msg, running, observed,
                 done, hist, workerFrame>>

WorkerStep ==
  \/ RegisterClass \/ CreateWindow \/ PostInit \/ SetUpCall \/ SetUpReturn
  \/ InstallCallbacks \/ GetMessage \/ InitBranch \/ CommandBranch
  \/ HandleCommandReturn \/ FlushBranch \/ OtherBranch \/ HandleMessageReturn
  \/ TearDownCall \/ TearDownReturn \/ DetachCallbacks \/ DestroyCallbacks
  \/ DestroyWindow \/ UnregisterClass

(* --------------------------- producer threads -------------------------- *)
NextItem(p, kind) == <<kind, p, Len(issued[p]) + 1>>

\* A producer may start an operation once new() has returned the handle.
CanStart(p) == cpc = "done" /\ pc[p] = "idle" /\ opsLeft > 0

producerFrame == <<cpc, wpc, wnd_extra, raw_cb, msg, handshake, running,
                   observed, done, cmd, window>>

\* send_command_internal, first half: command_queue.lock().unwrap() and
\* push_back.  lock() waits while another thread holds the mutex and fails,
\* so unwrap panics, when the mutex is poisoned.
LockAndPush(p, c, next, panic) ==
  /\ queue_lock \in {Free, Poisoned}
  /\ IF queue_lock = Poisoned
     THEN /\ pc' = [pc EXCEPT ![p] = panic]
          /\ UNCHANGED <<command_queue, queue_lock, hist>>
     ELSE /\ queue_lock' = p
          /\ command_queue' = Append(command_queue, c)
          /\ hist' = [hist EXCEPT !.pushed = Append(@, c),
                                  !.terminates = IF c = Terminate THEN @ + 1
                                                 ELSE @]
          /\ pc' = [pc EXCEPT ![p] = next]

\* (variant: the guard is dropped without posting the wake)
PostAndUnlockNoWake(p, next, panic) ==
  /\ queue_lock = p
  /\ queue_lock' = Free
  /\ pc' = [pc EXCEPT ![p] = next]
  /\ UNCHANGED posted

\* send_command_internal, second half: PostMessageW of the wake, still under
\* the guard, which is dropped on return; a failed post panics, and the
\* unwinding guard poisons the mutex.
PostAndUnlock(p, next, panic) ==
  /\ queue_lock = p
  /\ IF PostSucceeds
     THEN /\ posted' = PostMessageW(posted, <<WM_HWNDLOOP_COMMAND, 0>>)
          /\ queue_lock' = Free
          /\ pc' = [pc EXCEPT ![p] = next]
     ELSE /\ queue_lock' = Poisoned
          /\ pc' = [pc EXCEPT ![p] = panic]
          /\ UNCHANGED posted

\* send_command(cmd) is called.
SendCall(p) ==
  /\ CanStart(p)
  /\ opsLeft' = opsLeft - 1
  /\ issued' = [issued EXCEPT ![p] = Append(@, NextItem(p, "cmd"))]
  /\ pc' = [pc EXCEPT ![p] = "send_lock"]
  /\ ret' = [ret EXCEPT ![p] = NoRet]
  /\ UNCHANGED <<posted, hist, command_queue, queue_lock, flushVars,
                 handleVars, producerFrame>>

SendLock(p) ==
  /\ pc[p] = "send_lock"
  /\ LockAndPush(p, UserCommand(issued[p][Len(issued[p])]), "send_post",
                 "send_panicked")
  /\ UNCHANGED <<posted, issued, opsLeft, ret, flushVars, handleVars,
                 producerFrame>>

SendPost(p) ==
  /\ pc[p] = "send_post"
  /\ PostAndUnlock(p, "idle", "send_panicked")
  /\ ret' = [ret EXCEPT ![p] = [NoRet EXCEPT !.op = "send_command"]]
  /\ UNCHANGED <<hist, issued, opsLeft, command_queue, flushVars, handleVars,
                 producerFrame>>

\* PostMessageA(hwnd, WM_USER, w, 0) by a producer, as the tests do; on a
\* destroyed window it returns FALSE and nothing is posted.
RawPost(p) ==
  /\ CanStart(p)
  /\ PostSucceeds
  /\ opsLeft' = opsLeft - 1
  /\ issued' = [issued EXCEPT ![p] = Append(@, NextItem(p, "msg"))]
  /\ posted' = PostMessageW(posted, <<WM_USER, NextItem(p, "msg")>>)
  /\ ret' = [ret EXCEPT ![p] = NoRet]
  /\ UNCHANGED <<pc, hist, command_queue, queue_lock, flushVars, handleVars,
                 producerFrame>>

\* flush(): channel(), flush_requests.lock().unwrap(), push(tx).
FlushLock(p) ==
  /\ CanStart(p)
  /\ flush_lock \in {Free, Poisoned}
  /\ opsLeft' = opsLeft - 1
  /\ ret' = [ret EXCEPT ![p] = NoRet]
  /\ hist' = [hist EXCEPT !.flushers = @ \cup {p}]
  /\ IF flush_lock = Poisoned
     THEN /\ pc' = [pc EXCEPT ![p] = "flush_panicked"]
          /\ UNCHANGED <<flush_requests, flush_lock>>
     ELSE /\ flush_lock' = p
          /\ flush_requests' = Append(flush_requests, p)
          /\ pc' = [pc EXCEPT ![p] = "flush_post"]
  /\ UNCHANGED <<posted, issued, signalled, queueVars, handleVars,
                 producerFrame>>

\* (variant: the flush wake is not posted)
FlushPostNoWake(p) ==
  /\ pc[p] = "flush_post"
  /\ flush_lock = p
  /\ flush_lock' = Free
  /\ pc' = [pc EXCEPT ![p] = "flush_recv"]
  /\ UNCHANGED <<posted, hist, issued, opsLeft, ret, flush_requests, signalled,
                 queueVars, handleVars, producerFrame>>

\* (variant: the guard is still held when the caller blocks in recv)
FlushPostKeepLock(p) ==
  /\ pc[p] = "flush_post"
  /\ flush_lock = p
  /\ posted' = PostMessageW(posted, <<WM_HWNDLOOP_FLUSH, 0>>)
  /\ pc' = [pc EXCEPT ![p] = "flush_recv"]
  /\ UNCHANGED <<hist, issued, opsLeft, ret, flush_requests, flush_lock,
                 signalled, queueVars, handleVars, producerFrame>>

\* flush(): PostMessageW of the flush wake, then drop(requests).
FlushPost(p) ==
  /\ pc[p] = "flush_post"
  /\ flush_lock = p
  /\ IF PostSucceeds
     THEN /\ posted' = PostMessageW(posted, <<WM_HWNDLOOP_FLUSH, 0>>)
          /\ flush_lock' = Free
          /\ pc' = [pc EXCEPT ![p] = "flush_recv"]
     ELSE /\ flush_lock' = Poisoned
          /\ pc' = [pc EXCEPT ![p] = "flush_panicked"]
          /\ UNCHANGED posted
  /\ UNCHANGED <<hist, issued, opsLeft, ret, flush_requests, signalled,
                 queueVars, handleVars, producerFrame>>

\* (variant: try_recv in place of recv)
try_recv_ready(p) == TRUE

\* Receiver::recv blocks until the call's Sender has sent.
recv_ready(p) == p \in signalled

\* flush(): rx.recv().unwrap() returns once this call's Sender has sent.
FlushRecv(p) ==
  /\ pc[p] = "flush_recv"
  /\ recv_ready(p)
  /\ signalled' = signalled \ {p}
  /\ pc' = [pc EXCEPT ![p] = "idle"]
  /\ ret' = [ret EXCEPT ![p] =
               [NoRet EXCEPT !.op = "flush",
                             !.undone = {issued[p][i] : i \in 1..Len(issued[p])} \ done,
                             !.flushers = hist.flushers]]
  /\ UNCHANGED <<posted, hist, issued, opsLeft, flush_requests, flush_lock,
                 queueVars, handleVars, producerFrame>>

\* (variant: the flag is loaded and never stored)
load_only(flag) == flag

\* AtomicBool::swap(true, SeqCst): the value returned and the value stored.
swap_old(flag) == flag
swap_new(flag) == TRUE

\* terminate(): the swap; a caller that finds the flag set returns.
TerminateSwap(p) ==
  /\ CanStart(p)
  /\ opsLeft' = opsLeft - 1
  /\ terminated' = swap_new(terminated)
  /\ IF swap_old(terminated)
     THEN /\ pc' = pc
          /\ ret' = [ret EXCEPT ![p] =
                       [NoRet EXCEPT !.op = "terminate", !.worker = wpc]]
     ELSE /\ pc' = [pc EXCEPT ![p] = "term_lock"]
          /\ ret' = [ret EXCEPT ![p] = NoRet]
  /\ UNCHANGED <<posted, hist, issued, join_handle, queueVars, flushVars,
                 producerFrame>>

\* terminate(): send_command_internal(Terminate).
TerminateLock(p) ==
  /\ pc[p] = "term_lock"
  /\ LockAndPush(p, Terminate, "term_post", "term_panicked")
  /\ UNCHANGED <<posted, issued, opsLeft, ret, cmd, flushVars, handleVars,
                 producerFrame>>

TerminatePost(p) ==
  /\ pc[p] = "term_post"
  /\ PostAndUnlock(p, "term_take", "term_panicked")
  /\ UNCHANGED <<hist, issued, opsLeft, ret, command_queue, cmd, flushVars,
                 handleVars, producerFrame>>

\* terminate(): std::mem::replace(&mut *opt, None), then unwrap.
TerminateTake(p) ==
  /\ pc[p] = "term_take"
  /\ join_handle' = "None"
  /\ IF join_handle = "Some"
     THEN /\ pc' = [pc EXCEPT ![p] = "term_join"]
          /\ hist' = [hist EXCEPT !.joins = @ + 1]
     ELSE /\ pc' = [pc EXCEPT ![p] = "term_panicked"]
          /\ UNCHANGED hist
  /\ UNCHANGED <<posted, issued, opsLeft, ret, terminated, queueVars,
                 flushVars, producerFrame>>

\* (variant: the thread is not joined)
JoinSkipped == TRUE

\* JoinHandle::join returns once the thread has ended.
JoinReturns == wpc \in {"exited", "panicked"}

\* terminate(): join().unwrap() waits for the handler thread to end and
\* panics when that thread panicked.
TerminateJoin(p) ==
  /\ pc[p] = "term_join"
  /\ JoinReturns
  /\ IF wpc = "panicked"
     THEN /\ pc' = [pc EXCEPT ![p] = "term_panicked"]
          /\ UNCHANGED ret
     ELSE /\ pc' = [pc EXCEPT ![p] = "idle"]
          /\ ret' = [ret EXCEPT ![p] =
                       [NoRet EXCEPT !.op = "terminate", !.won = TRUE,
                                     !.worker = wpc]]
  /\ UNCHANGED <<posted, hist, issued, opsLeft, queueVars, flushVars,
                 handleVars, producerFrame>>

ProducerStep(p) ==
  \/ SendCall(p) \/ SendLock(p) \/ SendPost(p) \/ RawPost(p)
  \/ FlushLock(p) \/ FlushPost(p) \/ FlushRecv(p)
  \/ TerminateSwap(p) \/ TerminateLock(p) \/ TerminatePost(p)
  \/ TerminateTake(p) \/ TerminateJoin(p)

Next ==
  \/ Spawn
  \/ Recv
  \/ WorkerStep
  \/ \E p \in Producers : ProducerStep(p)

Spec == Init /\ [][Next]_vars

\* GetMessageW returns 0 or -1: panic!("GetMessageW failed").  The handler
\* thread unwinds and ends: its Sender and its clones of the two Arcs are
\* dropped, the handle keeps its own; the system destroys the window of a
\* thread that ends.
GetMessageFail ==
  /\ wpc = "get_message"
  /\ wpc' = "panicked"
  /\ window' = "destroyed"
  /\ posted' = <<>>
  /\ UNCHANGED <<wnd_extra, raw_cb, msg, running, observed, done, hist,
                 workerFrame>>

\* rx.recv().unwrap() in new() when the handler thread ended before sending:
\* the channel is disconnected and new() panics.
RecvDisconnected ==
  /\ cpc = "recv"
  /\ handshake = 0
  /\ wpc = "panicked"
  /\ cpc' = "panicked"
  /\ UNCHANGED <<wpc, window, wnd_extra, raw_cb, posted, msg, handshake,
                 running, observed, done, hist, producerVars, queueVars,
                 flushVars, handleVars>>

NextFail == Next \/ GetMessageFail \/ RecvDisconnected

\* The program with message retrieval allowed to fail.
SpecFail == Init /\ [][NextFail]_vars

\* A command wake that no send_command posted: the ids come from
\* RegisterWindowMessageA, which gives the same id to whoever registers the
\* same string, so other code can post one to the window.
SpuriousCommandWake ==
  /\ window = "alive"
  /\ opsLeft > 0
  /\ opsLeft' = opsLeft - 1
  /\ posted' = PostMessageW(posted, <<WM_HWNDLOOP_COMMAND, 0>>)
  /\ UNCHANGED <<cpc, wpc, pc, window, wnd_extra, raw_cb, msg, handshake,
                 running, observed, done, hist, issued, ret, queueVars,
                 flushVars, handleVars>>

NextSpurious == Next \/ SpuriousCommandWake

\* The program with command wakes that no send_command posted.
SpecSpurious == Init /\ [][NextSpurious]_vars

\* The steps a producer takes inside a call it has started.
InCallStep(p) ==
  \/ SendLock(p) \/ SendPost(p) \/ FlushPost(p) \/ FlushRecv(p)
  \/ TerminateLock(p) \/ TerminatePost(p) \/ TerminateTake(p)
  \/ TerminateJoin(p)

\* Threads that can run do run: the handler thread, the thread inside new(),
\* and every producer inside a call.  Whether a producer starts another call
\* is its own choice; callbacks return.
Fairness ==
  /\ WF_vars(Spawn)
  /\ WF_vars(Recv)
  /\ WF_vars(WorkerStep)
  /\ \A p \in Producers : WF_vars(InCallStep(p))

FairSpec == Init /\ [][Next]_vars /\ Fairness

(* ------------------------------- claims -------------------------------- *)
IsPrefix(a, b) == Len(a) <= Len(b) /\ SubSeq(b, 1, Len(a)) = a
IsCommandOf(p, item) == item[1] = "cmd" /\ item[2] = p
IsItemOf(p, item) == item[2] = p
CommandsOf(p, seq) == SelectSeq(seq, LAMBDA item : IsCommandOf(p, item))
ItemsOf(p, seq) == SelectSeq(seq, LAMBDA item : IsItemOf(p, item))
Range(seq) == {seq[i] : i \in 1..Len(seq)}

\* C1: for every producer, whatever the other producers do, the commands of
\* that producer on which handle_command has been invoked are, in invocation
\* order, an initial part of the commands it passed to send_command, in call
\* order: none reordered, none twice, none skipped.
C1_PerProducerCommandOrder ==
  \A p \in Producers :
    IsPrefix(CommandsOf(p, observed), CommandsOf(p, issued[p]))

\* Both producers have had commands handled, one of them at least two.
C1_Witness ==
  /\ Len(CommandsOf("p1", observed)) >= 2
  /\ Len(CommandsOf("p2", observed)) >= 1

\* C2: for every producer, the commands it sent and the raw messages it
\* posted reach handle_command and handle_message in exactly the order that
\* producer issued them.
C2_PerProducerInterleavedOrder ==
  \A p \in Producers : IsPrefix(ItemsOf(p, observed), issued[p])

\* One producer's command, raw message, command were handled in that order
\* while the other producer's command was handled too.
C2_Witness ==
  /\ Len(ItemsOf("p1", observed)) >= 3
  /\ ItemsOf("p1", observed)[1][1] = "cmd"
  /\ ItemsOf("p1", observed)[2][1] = "msg"
  /\ ItemsOf("p1", observed)[3][1] = "cmd"
  /\ Len(ItemsOf("p2", observed)) >= 1

\* C3: when flush() returns to a thread that is the only one ever to have
\* called flush, every command and raw message that thread issued before the
\* call has been handled and its callback has returned.
C3_FlushBarrierSingleCaller ==
  \A p \in Producers :
    (ret[p].op = "flush" /\ ret[p].flushers = {p}) => ret[p].undone = {}

\* A flush returned to its single caller after a command and a raw message.
C3_Witness ==
  \E p \in Producers :
    /\ ret[p].op = "flush"
    /\ ret[p].flushers = {p}
    /\ \E i, j \in 1..Len(issued[p]) :
         issued[p][i][1] = "cmd" /\ issued[p][j][1] = "msg"

\* C4: whenever flush() returns, to any caller and with other flush() calls
\* running, every command and raw message the calling thread issued before
\* the call has been handled.
C4_FlushBarrierEveryCaller ==
  \A p \in Producers : ret[p].op = "flush" => ret[p].undone = {}

\* C5: however many terminate() calls there are, one after another or at
\* once: at most one Terminate command is ever enqueued, the join handle is
\* taken at most once and never from an empty slot, tear_down runs at most
\* once, nothing panics, and once the winning call has returned exactly one
\* Terminate was enqueued and exactly one teardown ran.
C5_TerminateIdempotent ==
  /\ hist.terminates <= 1
  /\ hist.joins <= 1
  /\ hist.tear_down_started <= 1
  /\ \A p \in Producers : pc[p] # "term_panicked"
  /\ wpc # "panicked"
  /\ \A p \in Producers :
       (ret[p].op = "terminate" /\ ret[p].won) =>
         (hist.terminates = 1 /\ hist.joins = 1 /\ hist.tear_down = 1)

\* Two threads called terminate(): one won and has returned from the join,
\* the other found the flag set and returned.
C5_Witness ==
  \E p, q \in Producers :
    /\ ret[p].op = "terminate" /\ ret[p].won
    /\ ret[q].op = "terminate" /\ ~ret[q].won

HandlerRunning ==
  <<Worker, "handle_command">> \in running
    \/ <<Worker, "handle_message">> \in running

\* C6: handle_command and handle_message are invoked only after set_up has
\* returned and never once tear_down has started; when tear_down starts every
\* handler invoked so far has returned; the window is destroyed only after
\* tear_down has returned.
C6_SetUpTearDownOrder ==
  /\ (observed # <<>> \/ HandlerRunning) => hist.set_up = 1
  /\ hist.tear_down_started > 0 => (~HandlerRunning /\ Range(observed) \subseteq done)
  /\ window = "destroyed" => hist.tear_down = 1

\* The window is destroyed after a command and a raw message were handled.
C6_Witness ==
  /\ window = "destroyed"
  /\ \E i, j \in 1..Len(observed) :
       observed[i][1] = "cmd" /\ observed[j][1] = "msg"

ShutdownStarted == hist.tear_down_started > 0

\* C7: at most one callback executes at a time, always on the handler
\* thread, and from the start of tear_down to the end of the thread no
\* handle_command or handle_message is executing.
C7_CallbacksSerialOnWorker ==
  /\ Cardinality(running) <= 1
  /\ \A r \in running : r[1] = Worker
  /\ ShutdownStarted => ~HandlerRunning

\* handle_message is executing while a producer is in the middle of
\* send_command.
C7_Witness ==
  /\ <<Worker, "handle_message">> \in running
  /\ \E p \in Producers : pc[p] = "send_post"

\* C8 as stated: whenever any terminate() call returns, the handler thread
\* has ended.
C8_EveryTerminateReturnAfterExit ==
  \A p \in Producers : ret[p].op = "terminate" => ret[p].worker = "exited"

\* C8, amended: whenever the terminate() call that won the flag returns, the
\* handler thread has ended (tear_down done, window destroyed).
C8_WinnerReturnsAfterExit ==
  \A p \in Producers :
    (ret[p].op = "terminate" /\ ret[p].won) =>
      (ret[p].worker = "exited" /\ window = "destroyed" /\ hist.tear_down = 1)

\* The winning terminate() has returned from its join; another thread's
\* terminate() had returned earlier, while the handler thread was handling a
\* message.
C8_Witness ==
  \E p, q \in Producers :
    /\ ret[p].op = "terminate" /\ ret[p].won
    /\ ret[q].op = "terminate" /\ ret[q].worker \in {"dispatch", "handle_command"}

\* C9: a producer inside send_command never has to wait for the handler
\* thread: when it is about to lock the queue, the handler thread does not
\* hold the queue's mutex.
C9_SendNeverWaitsForWorker ==
  \A p \in Producers : pc[p] = "send_lock" => queue_lock # Worker

StartupDone ==
  /\ window # "none"
  /\ hist.set_up = 1
  /\ raw_cb # "none"
  /\ hist.handshakes = 1
  /\ wpc \notin {"unspawned", "register_class", "create_window", "post_init",
                  "set_up", "in_set_up", "install"}

IsWake(m) == m[1] \in {WM_HWNDLOOP_COMMAND, WM_HWNDLOOP_FLUSH}

\* C10: new() has returned only if the handler thread has created the
\* window, returned from set_up, installed the callbacks and handled the init
\* message; no producer has started anything, and no command or flush wake
\* is posted, before that; the handshake is sent at most once.
C10_HandshakeReadiness ==
  /\ hist.handshakes <= 1
  /\ cpc = "done" => StartupDone
  /\ (\E p \in Producers : pc[p] # "idle" \/ issued[p] # <<>>) => StartupDone
  /\ (\E i \in 1..Len(posted) : IsWake(posted[i])) => StartupDone
  /\ (command_queue # <<>> \/ flush_requests # <<>>) => StartupDone

\* new() has returned and a command wake and a flush wake are posted.
C10_Witness ==
  /\ cpc = "done"
  /\ \E i, j \in 1..Len(posted) :
       posted[i][1] = WM_HWNDLOOP_COMMAND /\ posted[j][1] = WM_HWNDLOOP_FLUSH

\* The commands pushed before the first Terminate.
PushedBeforeTerminate ==
  {hist.pushed[i] : i \in {k \in 1..Len(hist.pushed) :
                             \A j \in 1..k : hist.pushed[j] # Terminate}}

\* When tear_down starts, every command pushed before Terminate has been
\* passed to handle_command.
C11_DispatchedBeforeTearDown ==
  ShutdownStarted =>
    \A c \in PushedBeforeTerminate : c[2] \in Range(observed)

\* A command leaves the queue only into handle_command.
C11_QueuedOrDispatched ==
  \A c \in Range(hist.pushed) :
    c = Terminate \/ c \in Range(command_queue) \/ c[2] \in Range(observed)

\* C11: with the threads scheduled fairly and callbacks returning, no
\* command stays in the queue for ever unless the loop shuts down (the queue
\* is drained again and again, and a command leaves it only into
\* handle_command); and when tear_down starts, every command pushed before
\* Terminate has been passed to handle_command.
C11_NoCommandLost ==
  /\ [](C11_DispatchedBeforeTearDown /\ C11_QueuedOrDispatched)
  /\ []<>(command_queue = <<>> \/ ShutdownStarted)

\* tear_down has started after two commands were pushed ahead of Terminate.
C11_Witness ==
  /\ ShutdownStarted
  /\ Len(hist.pushed) >= 3
  /\ hist.pushed[3] = Terminate
  /\ Cardinality(PushedBeforeTerminate) = 2

\* C12: once message retrieval has failed and the handler thread has ended
\* abnormally, no flush() call stays blocked: a caller waiting on its signal
\* can return.  (Nothing but the handler thread ever fires a signal, and the
\* Senders stay alive in flush_requests, so a caller that cannot return in
\* such a state never will.)
C12_NoFlushBlockedAfterFatal ==
  \A p \in Producers :
    (wpc = "panicked" /\ pc[p] = "flush_recv") => recv_ready(p)

FlushInFlight(p) == pc[p] \in {"flush_post", "flush_recv"}

\* C13: with the threads scheduled fairly, callbacks returning and no fatal
\* error, every flush() call on a running loop (one on which terminate() is
\* not called while the flush is in flight) returns, whichever producers
\* flush at the same time.
C13_FlushReturns ==
  \A p \in Producers : FlushInFlight(p) ~> (pc[p] = "idle" \/ terminated)

\* Both producers have returned from flush() calls on a running loop.
C13_Witness ==
  /\ ~terminated
  /\ \A p \in Producers : ret[p].op = "flush"

\* The lifecycle state of the handler thread, as a position in
\* Created (0), Initializing (1), Running (2), Terminating (3), Terminated (4).
\* The thread is Initializing until it has sent the handshake.
Lifecycle(w, m, sent) ==
  CASE w = "unspawned" -> 0
    [] w \in {"register_class", "create_window", "post_init", "set_up",
              "in_set_up", "install"} -> 1
    [] w \in {"get_message", "dispatch", "handle_command"} ->
         IF sent = 0 THEN 1 ELSE 2
    [] w = "handle_message" ->
         IF m[1] = WM_CREATE THEN 1 ELSE IF m[1] = WM_DESTROY THEN 3 ELSE 2
    [] w \in {"tear_down", "in_tear_down", "detach", "destroy_callbacks",
              "destroy_window", "unregister_class"} -> 3
    [] w = "exited" -> 4
    [] OTHER -> 5

C14_Step ==
  LET before == Lifecycle(wpc, msg, hist.handshakes)
      after == Lifecycle(wpc', msg', hist'.handshakes)
  IN /\ after \in {before, before + 1}
     /\ after <= 4
     /\ (before = 2 /\ after = 3) =>
          /\ wpc = "dispatch"
          /\ msg[1] = WM_HWNDLOOP_COMMAND
          /\ command_queue # <<>>
          /\ Head(command_queue) = Terminate
          /\ cmd' = Terminate

\* C14: every step leaves the handler thread's lifecycle state where it is
\* or moves it to the next of Created, Initializing, Running, Terminating,
\* Terminated; it leaves Running for Terminating only by popping Terminate
\* on a command wake; Terminated, once entered, is never left.
C14_LifecycleForwardOnly == [][C14_Step]_vars

\* The handler thread has ended after handling a command.
C14_Witness ==
  /\ wpc = "exited"
  /\ \E i \in 1..Len(observed) : observed[i][1] = "cmd"

C15_Step ==
  (/\ wpc = "dispatch"
   /\ msg[1] = WM_HWNDLOOP_COMMAND
   /\ command_queue = <<>>
   /\ wpc' # wpc) =>
     /\ wpc' = "get_message"
     /\ Lifecycle(wpc', msg', hist'.handshakes)
          = Lifecycle(wpc, msg, hist.handshakes)
     /\ UNCHANGED <<running, observed, done, cmd, command_queue, queue_lock,
                    flush_requests, flush_lock, signalled>>

\* C15: when the handler thread handles a command wake and finds the queue
\* empty, it invokes no callback, leaves the queue, the flush requests, both
\* locks and its lifecycle state as they are, does not panic, and goes back
\* to retrieving messages.
C15_EmptyWakeIsNoOp == [][C15_Step]_vars

\* A command wake found the queue empty and the loop went on: a message
\* retrieved after it is being dispatched.
C15_Witness ==
  /\ hist.noops > 0
  /\ wpc = "dispatch"
  /\ msg[1] = WM_USER

\* The wakes of one kind posted to the window and not yet processed: those
\* still in the window's message queue, and the one the loop has retrieved
\* and not yet handled.
Unprocessed(kind) ==
  Cardinality({i \in 1..Len(posted) : posted[i][1] = kind})
    + (IF wpc = "dispatch" /\ msg[1] = kind THEN 1 ELSE 0)

\* The flush() calls that hold the list's lock between their append and
\* their post, which the lock makes one step for every other thread.
FlushAppending == Cardinality({p \in Producers : pc[p] = "flush_post"})

C16_PendingEqualsWakes ==
  window = "alive" =>
    Len(flush_requests) = Unprocessed(WM_HWNDLOOP_FLUSH) + FlushAppending

C16_Step ==
  (/\ wpc = "dispatch"
   /\ msg[1] = WM_HWNDLOOP_FLUSH
   /\ wpc' # wpc) =>
     /\ flush_requests # <<>>
     /\ flush_requests' = SubSeq(flush_requests, 1, Len(flush_requests) - 1)
     /\ signalled' = signalled \cup {flush_requests[Len(flush_requests)]}
     /\ flush_requests[Len(flush_requests)] \notin signalled
     /\ wpc' = "get_message"

\* C16: for each flush wake the handler thread processes it removes and
\* fires exactly one pending flush request, the most recently appended one;
\* the list is not empty at that moment, and while the window exists the
\* number of pending requests equals the number of flush wakes posted and
\* not yet processed, a flush() inside its locked append-and-post counting
\* as having posted.
C16_OneRequestPerFlushWake ==
  /\ []C16_PendingEqualsWakes
  /\ [][C16_Step]_vars

\* A flush wake has been processed while two requests were pending: one
\* caller is signalled and has not returned yet, the other still waits with
\* its own wake posted.
C16_Witness ==
  /\ wpc = "get_message"
  /\ Len(flush_requests) = 1
  /\ Unprocessed(WM_HWNDLOOP_FLUSH) = 1
  /\ \E p \in Producers : p \in signalled /\ pc[p] = "flush_recv"

\* C17: each lock is held only for an append or a pop: a producer holds the
\* queue's lock only between its push and its post, and the list's lock only
\* between its push and its post; the handler thread never holds the
\* queue's lock while a handle_command callback is executing; and no thread
\* holds either lock while it waits for a signal or for the thread's exit.
C17_LockingDiscipline ==
  /\ queue_lock = Worker => <<Worker, "handle_command">> \notin running
  /\ \A p \in Producers :
       /\ queue_lock = p => pc[p] \in {"send_post", "term_post"}
       /\ flush_lock = p => pc[p] = "flush_post"
       /\ pc[p] \in {"flush_recv", "term_join"} =>
            queue_lock # p /\ flush_lock # p

NoDuplicates(q) == \A i, j \in 1..Len(q) : q[i] = q[j] => i = j

\* C18: each command appended to the queue is removed at most once and
\* passed to handle_command at most once, and only by the handler thread:
\* no command is in the queue twice, none that was dispatched is still in
\* the queue, none is dispatched twice, every dispatched command was
\* appended, every removal took one appended command out, and
\* handle_command never runs on another thread.
C18_DispatchedAtMostOnce ==
  /\ NoDuplicates(command_queue)
  /\ NoDuplicates(observed)
  /\ \A i \in 1..Len(observed) :
       observed[i][1] = "cmd" =>
         /\ UserCommand(observed[i]) \notin Range(command_queue)
         /\ UserCommand(observed[i]) \in Range(hist.pushed)
  /\ hist.cwakes + Len(command_queue) = Len(hist.pushed)
  /\ \A r \in running : r[2] = "handle_command" => r[1] = Worker

\* Commands of both producers have been dispatched while a further command
\* waits in the queue.
C18_Witness ==
  /\ command_queue # <<>>
  /\ \E i, j \in 1..Len(observed) :
       /\ observed[i][1] = "cmd" /\ observed[j][1] = "cmd"
       /\ observed[i][2] # observed[j][2]

\* The send_command_internal calls that hold the queue's lock between their
\* append and their post, which the lock makes one step for every other
\* thread.
QueueAppending ==
  Cardinality({p \in Producers : pc[p] \in {"send_post", "term_post"}})

\* C19: send_command appends and posts its wake as one step under the
\* queue's lock, so while the window exists the queue length equals the
\* number of command wakes posted and not yet processed (those in the
\* window's message queue, plus one while the handler thread has retrieved
\* a wake and not yet popped), a call inside its locked append-and-post
\* counting as having posted; every wake finds a command; and the command
\* popped when the k-th command wake is processed is the k-th command ever
\* appended, with several producers running at once.
C19_WakeCommandCorrespondence ==
  /\ window = "alive" =>
       Len(command_queue) = Unprocessed(WM_HWNDLOOP_COMMAND) + QueueAppending
  /\ hist.noops = 0
  /\ hist.cwakes <= Len(hist.pushed)
  /\ hist.cwakes > 0 => cmd = hist.pushed[hist.cwakes]
  /\ command_queue = SubSeq(hist.pushed, hist.cwakes + 1, Len(hist.pushed))

\* One command has been popped, the handler thread has retrieved the next
\* wake and not yet popped, and a producer is between its append and its
\* post with two commands in the queue.
C19_Witness ==
  /\ wpc = "dispatch"
  /\ msg[1] = WM_HWNDLOOP_COMMAND
  /\ hist.cwakes >= 1
  /\ Len(command_queue) = 2
  /\ \E p \in Producers : pc[p] = "send_post"

\* The producer whose lock the handler thread is waiting for, if any.
WorkerWaitsFor(p) ==
  /\ wpc = "dispatch"
  /\ \/ msg[1] = WM_HWNDLOOP_COMMAND /\ queue_lock = p
     \/ msg[1] = WM_HWNDLOOP_FLUSH /\ flush_lock = p

\* The producer is blocked until the handler thread acts.
WaitsForWorker(p) ==
  \/ pc[p] \in {"flush_recv", "term_join"}
  \/ pc[p] \in {"send_lock", "term_lock"} /\ queue_lock = Worker

\* C20: flush() has released the list's lock when it blocks on its signal;
\* the handler thread never waits for a lock whose holder waits for the
\* handler thread, and that holder can take its next step; and while the
\* loop is running and some producer is inside a call, the handler thread
\* or a producer inside a call has an enabled step.
C20_DeadlockFreedom ==
  /\ \A p \in Producers : pc[p] = "flush_recv" => flush_lock # p
  /\ \A p \in Producers :
       WorkerWaitsFor(p) => ~WaitsForWorker(p) /\ ENABLED InCallStep(p)
  /\ (~terminated /\ \E p \in Producers : pc[p] # "idle") =>
       ENABLED (WorkerStep \/ \E p \in Producers : InCallStep(p))

\* The handler thread has retrieved a flush wake and waits for the list's
\* lock, held by a producer inside flush(), while the other producer is
\* blocked on its signal.
C20_Witness ==
  /\ ~terminated
  /\ \E p, q \in Producers :
       /\ WorkerWaitsFor(p) /\ pc[p] = "flush_post"
       /\ pc[q] = "flush_recv"

====
